---- MODULE Spec2Model ----
(***************************************************************************)
(* Model of passwd.c (mit-athena/passwd): the routine update_passwd_local  *)
(* that refreshes one record of PATH_PASSWD_LOCAL from PATH_PASSWD through *)
(* the temporary file PATH_PASSWD_LOCAL_TMP, the line reader read_line,    *)
(* and the signal handler cleanup.                                         *)
(*                                                                         *)
(* Files are sequences of one-character strings.  A path names at most one *)
(* inode; an open stream keeps reading the inode it was opened on, also    *)
(* after the path has been renamed over.  Library and system calls that    *)
(* can fail (fopen, fgets, malloc/realloc, open, fdopen, fputs/putc,       *)
(* fclose, rename) fail nondeterministically.  unlink of a path the        *)
(* process may write to is taken to succeed when the path exists.          *)
(***************************************************************************)
EXTENDS Integers, Sequences, FiniteSets, TLC

(***************************************************************************)
(* Bounds of the model.                                                    *)
(***************************************************************************)
\* most lines in an enumerated pre-run PATH_PASSWD_LOCAL
MaxLines == 2
\* signals the environment sends in the single-process specification
MaxSignals == 1
\* signals the environment sends to the three racing processes
MaxRaceSignals == 2
\* most lines of a stream given to the line reader alone
MaxReaderLines == 2
\* calls of read_line that return non-zero before the caller stops
MaxEofCalls == 2

(***************************************************************************)
(* Program constants.                                                      *)
(***************************************************************************)
\* malloc(128): the initial capacity of read_line's buffer
BufInit == 128
\* for (i = 0; i < 10; i++): attempts to create the temporary file
MaxTries == 10
\* the signals of `mask'
Sigs == {"SIGHUP", "SIGINT", "SIGQUIT", "SIGTERM"}
\* PLTMP_MODE of the build without HAVE_MASTER_PASSWD / HAVE_SHADOW
PLTMP_MODE == {"S_IWUSR", "S_IRUSR", "S_IRGRP", "S_IROTH"}

NL == "\n"
COLON == ":"

(***************************************************************************)
(* Small arithmetic and sequence helpers.                                  *)
(***************************************************************************)
Min(S) == CHOOSE x \in S : \A y \in S : x <= y

Rep(c, n) == [k \in 1..n |-> c]

RECURSIVE Concat(_)
\* the concatenation of a sequence of sequences
Concat(ss) == IF ss = <<>> THEN <<>> ELSE Head(ss) \o Concat(Tail(ss))

(***************************************************************************)
(* strncmp(line, username, len) == 0 && line[len] == ':'                   *)
(* (lines 255 and 333).  A line shorter than the name ends the comparison  *)
(* at its terminating NUL, so it cannot match.                             *)
(***************************************************************************)
IsMatchPrefixOnly(line, username) ==
    /\ Len(line) >= Len(username)
    /\ SubSeq(line, 1, Len(username)) = username

IsMatch(line, username) ==
    /\ Len(line) > Len(username)
    /\ SubSeq(line, 1, Len(username)) = username
    /\ line[Len(username) + 1] = COLON

\* fgets reading on past a newline
FgetsCountIgnoresNewline(s, pos, n) ==
    LET avail == Len(s) - pos + 1
        lim   == IF n - 1 < avail THEN n - 1 ELSE avail
    IN  IF lim <= 0 THEN 0 ELSE lim

(***************************************************************************)
(* fgets(buf + offset, n, fp): the number of characters it stores, at     *)
(* most n - 1, stopping after a newline or at the end of the stream.       *)
(***************************************************************************)
FgetsCount(s, pos, n) ==
    LET avail == Len(s) - pos + 1
        lim   == IF n - 1 < avail THEN n - 1 ELSE avail
        nls   == {k \in 1..lim : s[pos + k - 1] = NL}
    IN  IF lim <= 0 THEN 0 ELSE IF nls = {} THEN lim ELSE Min(nls)

(***************************************************************************)
(* read_line (lines 390-422), from the while (1) loop on.  `acc' is the    *)
(* buffer content before `offset', `err' the stream's error indicator.     *)
(* The result is the set of outcomes the library calls allow:              *)
(*   ret     the return value (0 line, 1 end of file, -1 error)            *)
(*   line    the buffer content when ret = 0                               *)
(*   pos     the stream position afterwards                                *)
(*   bufsize the buffer capacity afterwards                                *)
(*   err     the stream's error indicator afterwards (it is sticky)        *)
(*   fault   whether a library call failed during the call                 *)
(* A failing fgets returns NULL, sets the error indicator and leaves the   *)
(* array contents indeterminate: any k of the characters it would have     *)
(* read before the failure may have been stored and consumed.  With k = 0  *)
(* the terminator of the previous fgets is still in place; with k > 0 the  *)
(* characters are stored without a terminator, and the line the caller     *)
(* sees runs on through what the memory behind them holds (one of          *)
(* StaleBytes) up to the next NUL.                                         *)
(***************************************************************************)
\* contents of the not yet written part of the buffer up to its first NUL:
\* nothing, or bytes of an earlier use of the memory
StaleBytes == {<<>>, <<NL, "a", ":", "9">>}

RECURSIVE ReadLoop(_, _, _, _, _, _)
ReadLoop(s, pos, acc, bufsize, err, fault) ==
    LET offset == Len(acc)
        cnt    == FgetsCount(s, pos, bufsize - offset)
        chunk  == SubSeq(s, pos, pos + cnt - 1)
        \* fgets reads on only while it has seen no newline and has room
        kmax   == IF cnt > 0 /\ (chunk[cnt] = NL \/ cnt = bufsize - offset - 1)
                  THEN cnt - 1 ELSE cnt
        \* line 405-406 with fgets failing on a read error
        readError ==
            IF offset # 0
            THEN {[ret |-> 0, line |-> acc \o SubSeq(s, pos, pos + k - 1),
                   pos |-> pos + k, bufsize |-> bufsize, err |-> TRUE,
                   fault |-> TRUE] : k \in 0..kmax}
                 \cup
                 {[ret |-> 0, line |-> acc \o SubSeq(s, pos, pos + k - 1) \o g,
                   pos |-> pos + k, bufsize |-> bufsize, err |-> TRUE,
                   fault |-> TRUE] : k \in 1..kmax, g \in StaleBytes}
            ELSE {[ret |-> -1, line |-> <<>>, pos |-> pos,
                   bufsize |-> bufsize, err |-> TRUE, fault |-> TRUE]}
        \* line 405-406 with fgets at the end of the stream
        atEof ==
            {[ret |-> IF offset # 0 THEN 0 ELSE IF err THEN -1 ELSE 1,
              line |-> IF offset # 0 THEN acc ELSE <<>>,
              pos |-> pos, bufsize |-> bufsize, err |-> err, fault |-> fault]}
        \* lines 408-412
        gotLine ==
            {[ret |-> 0, line |-> acc \o SubSeq(chunk, 1, cnt - 1),
              pos |-> pos + cnt, bufsize |-> bufsize, err |-> err,
              fault |-> fault]}
        \* lines 416-418 with realloc failing
        reallocFails ==
            {[ret |-> -1, line |-> <<>>, pos |-> pos + cnt,
              bufsize |-> bufsize, err |-> err, fault |-> TRUE]}
    IN  readError \cup
        IF cnt = 0 THEN atEof
        ELSE IF chunk[cnt] = NL THEN gotLine
        ELSE reallocFails \cup
             ReadLoop(s, pos + cnt, acc \o chunk, bufsize * 2, err, fault)

(***************************************************************************)
(* read_line (lines 390-422).  bufsize = 0 stands for a NULL buffer.       *)
(***************************************************************************)
read_line(s, pos, bufsize, err) ==
    LET mallocFails == {[ret |-> -1, line |-> <<>>, pos |-> pos,
                         bufsize |-> 0, err |-> err, fault |-> TRUE]}
    IN  IF bufsize = 0
        THEN mallocFails \cup ReadLoop(s, pos, <<>>, BufInit, err, FALSE)
        ELSE ReadLoop(s, pos, <<>>, bufsize, err, FALSE)

(***************************************************************************)
(* Inputs: records, pre-run contents of PATH_PASSWD_LOCAL and contents of  *)
(* PATH_PASSWD.  Two user names, one a proper prefix of the other; records *)
(* that fit the initial buffer and records that overflow it.               *)
(***************************************************************************)
UserA == <<"a">>
UserAB == <<"a", "b">>
Users == {UserA, UserAB}

RecA1 == <<"a", ":", "1">>
RecA2 == <<"a", ":", "2">>
RecAB3 == <<"a", "b", ":", "3">>
RecAB4 == <<"a", "b", ":", "4">>
\* BufInit characters: one more than the first fgets can store
RecABLong == <<"a", "b", ":">> \o Rep("x", BufInit - 3)
RecALong == <<"a", ":">> \o Rep("y", BufInit - 2)

MirrorLines == {RecA1, RecAB3, RecABLong}

\* the line sequences of at most n lines
LineSeqs(n) == UNION {[1..k -> MirrorLines] : k \in 0..n}

\* a file of the lines ls, each ended by a newline
FileOf(ls) == Concat([k \in 1..Len(ls) |-> ls[k] \o <<NL>>])

\* the same file without the newline of its last line
Unterminated(ls) == SubSeq(FileOf(ls), 1, Len(FileOf(ls)) - 1)

MirrorFiles ==
    {FileOf(ls) : ls \in LineSeqs(MaxLines)} \cup
    {Unterminated(ls) : ls \in LineSeqs(MaxLines) \ {<<>>}}

PasswdFiles ==
    { <<>>,
      FileOf(<<RecA2>>),
      FileOf(<<RecAB4, RecA2, RecA1>>),
      FileOf(<<RecALong, RecAB4>>) }

(***************************************************************************)
(* State.                                                                  *)
(***************************************************************************)
Procs == {"p1", "p2", "p3"}
\* inode "local" is the pre-run PATH_PASSWD_LOCAL, inode p the file process
\* p creates at PATH_PASSWD_LOCAL_TMP, inode "stale" a file that a process
\* killed earlier (SIGKILL, power loss) has left at PATH_PASSWD_LOCAL_TMP
Inodes == {"local", "stale"} \cup Procs

VARIABLES
    passwd,     \* content of PATH_PASSWD
    files,      \* content of each inode
    fmode,      \* permission bits of each inode
    mirror,     \* the inode at PATH_PASSWD_LOCAL: {} or {i}
    tmp,        \* the inode at PATH_PASSWD_LOCAL_TMP: {} or {i}
    pc,         \* position of each process in update_passwd_local
    hpc,        \* position of each process in cleanup: none, unlink, exit
    exit,       \* idle, running, exit0, exit1, killed
    diag,       \* the diagnostic the process printed on stderr
    username,   \* argument of update_passwd_local
    userline,   \* the record found in PATH_PASSWD
    fp,         \* the inode the stream fp reads: {} or {i}
    fpPos,      \* position of fp
    fpErr,      \* error indicator of fp
    linesize,   \* capacity of the buffer `line' (0: line == NULL)
    found,
    status,
    tries,      \* the loop counter i
    fd,         \* the inode fd / fp_out writes: {} when fd == -1
    eexist,     \* errno == EEXIST
    outErr,     \* error indicator of fp_out
    sigmask,    \* the signals the process blocks
    omask,
    disp,       \* disposition of the signals of Sigs: dfl, ign, cleanup
    pending,    \* signals sent while blocked
    umask,
    oldumask,
    sigsLeft,   \* signals the environment may still send
    sigsUsed,   \* the signals of Sigs the environment has sent so far
    mayFail,    \* whether library and system calls may fail for reasons
                \* outside the two files (I/O error, out of memory, ...)
    hFault,     \* a library or system call of the process has failed
    hSent,      \* a signal was sent between the creation of the temporary
                \* file by the process and its rename
    hSentOpen,  \* a signal that the caller's mask lets through was sent
                \* between that creation and the block of line 349
    hHandled,   \* cleanup has been entered
    hCreated,   \* the process has created the temporary file
    hCommitted, \* the process has renamed the temporary file
    hMask0,     \* the signal mask of the process at entry
    hDisp0,     \* the dispositions of the signals of Sigs at entry
    hUmask0,    \* the file-creation mask of the process at entry
    hOpens,     \* the calls of open(PATH_PASSWD_LOCAL_TMP, ...) so far
    hDiscarded, \* the process has unlinked or renamed PATH_PASSWD_LOCAL_TMP
                \* after it has created the file
    hLines,     \* the lines the calls of read_line have yielded (reader)
    hRets       \* the return values of the calls of read_line (reader)

fsv == <<passwd, files, fmode, mirror, tmp>>
ctl == <<pc, hpc, exit, diag>>
loc == <<username, userline, fp, fpPos, fpErr, linesize, found, status,
         tries, fd, eexist, outErr>>
sgv == <<sigmask, omask, disp, pending, sigsLeft, sigsUsed, mayFail>>
umv == <<umask, oldumask>>
hsig == <<hSent, hSentOpen>>
hist == <<hFault, hsig, hHandled, hCreated, hCommitted>>
hent == <<hMask0, hDisp0, hUmask0>>
hrd == <<hLines, hRets>>
aux == <<hent, hrd, hOpens, hDiscarded>>
vars == <<fsv, ctl, loc, sgv, umv, hist, aux>>

Set(f, p, v) == [f EXCEPT ![p] = v]

\* the one element of a singleton
The(S) == CHOOSE x \in S : TRUE

(***************************************************************************)
(* Initial states: `started' are the processes that call                   *)
(* update_passwd_local, each for a name of `names'; PATH_PASSWD_LOCAL      *)
(* holds one of `mirrors' or, when `absent' allows it, does not exist;     *)
(* with `stale' a stale file may occupy PATH_PASSWD_LOCAL_TMP.             *)
(***************************************************************************)
InitWith(started, names, pws, mirrors, absent, stale, masks, disps, ums, n, f) ==
    /\ passwd \in pws
    /\ \E m \in mirrors :
         files = [i \in Inodes |-> IF i = "local" THEN m ELSE <<>>]
    /\ fmode = [i \in Inodes |-> IF i \in Procs THEN {} ELSE PLTMP_MODE]
    /\ mirror \in ({{"local"}} \cup IF absent THEN {{}} ELSE {})
    /\ mirror = {} => files["local"] = <<>>
    /\ tmp \in ({{}} \cup IF stale THEN {{"stale"}} ELSE {})
    /\ pc = [p \in Procs |-> IF p \in started THEN "fopen_passwd" ELSE "idle"]
    /\ hpc = [p \in Procs |-> "none"]
    /\ exit = [p \in Procs |-> IF p \in started THEN "running" ELSE "idle"]
    /\ diag = [p \in Procs |-> "none"]
    /\ username \in [Procs -> names]
    /\ \A p \in Procs \ started : username[p] = UserA
    /\ userline = [p \in Procs |-> <<>>]
    /\ fp = [p \in Procs |-> {}]
    /\ fpPos = [p \in Procs |-> 1]
    /\ fpErr = [p \in Procs |-> FALSE]
    /\ linesize = [p \in Procs |-> 0]
    /\ found = [p \in Procs |-> FALSE]
    /\ status = [p \in Procs |-> 0]
    /\ tries = [p \in Procs |-> 0]
    /\ fd = [p \in Procs |-> {}]
    /\ eexist = [p \in Procs |-> FALSE]
    /\ outErr = [p \in Procs |-> FALSE]
    /\ \E m \in masks : sigmask = [p \in Procs |-> m]
    /\ omask = [p \in Procs |-> {}]
    /\ \E d \in disps : disp = [p \in Procs |-> [s \in Sigs |-> d]]
    /\ \E u \in ums : umask = [p \in Procs |-> u]
    /\ pending = [p \in Procs |-> {}]
    /\ oldumask = [p \in Procs |-> {}]
    /\ sigsLeft = n
    /\ sigsUsed = {}
    /\ mayFail = f
    /\ hFault = [p \in Procs |-> FALSE]
    /\ hSent = [p \in Procs |-> FALSE]
    /\ hSentOpen = [p \in Procs |-> FALSE]
    /\ hHandled = [p \in Procs |-> FALSE]
    /\ hCreated = [p \in Procs |-> FALSE]
    /\ hCommitted = [p \in Procs |-> FALSE]
    /\ hMask0 = sigmask
    /\ hDisp0 = disp
    /\ hUmask0 = umask
    /\ hOpens = [p \in Procs |-> 0]
    /\ hDiscarded = [p \in Procs |-> FALSE]
    /\ hLines = <<>>
    /\ hRets = <<>>

\* one invocation, no other process touching the files
Init ==
    InitWith({"p1"}, Users, PasswdFiles, MirrorFiles, TRUE, TRUE, {{}}, {"dfl"},
             {{"S_IWGRP", "S_IWOTH"}}, MaxSignals, TRUE)

(***************************************************************************)
(* Process steps.  A step of the main line runs only while the process is  *)
(* alive, is not inside cleanup and has no pending signal that its mask    *)
(* lets through (such a signal is delivered first).                        *)
(***************************************************************************)
Runnable(p) ==
    /\ exit[p] = "running"
    /\ hpc[p] = "none"
    /\ pending[p] \ sigmask[p] = {}

Terminated(p) == exit[p] \in {"exit0", "exit1", "killed"}

\* the process ends: "exit0" main returns 0, "exit1" exit(1)
Terminate(p, how, msg) ==
    /\ pc' = Set(pc, p, "done")
    /\ exit' = Set(exit, p, how)
    /\ diag' = Set(diag, p, msg)

Goto(p, label) ==
    /\ pc' = Set(pc, p, label)
    /\ UNCHANGED <<exit, diag>>

\* lines 245-251: fopen(PATH_PASSWD, "r")
FopenPasswd(p) ==
    /\ Runnable(p) /\ pc[p] = "fopen_passwd"
    /\ \E ok \in {TRUE} \cup {~mayFail} :
         IF ok THEN Goto(p, "scan") /\ UNCHANGED hFault
         ELSE /\ Terminate(p, "exit1", "cant_open_passwd")
              /\ hFault' = Set(hFault, p, TRUE)
    /\ UNCHANGED <<fsv, aux, hpc, loc, sgv, umv, hsig, hHandled, hCreated,
                   hCommitted>>

(***************************************************************************)
(* Lines 252-260: the loop that looks for the first line of PATH_PASSWD    *)
(* that matches username.  The set of its outcomes [found, line, fault].   *)
(***************************************************************************)
RECURSIVE ScanLoop(_, _, _, _, _, _)
ScanLoop(s, pos, bufsize, err, fault, name) ==
    UNION { IF r.ret = 0
            THEN IF IsMatch(r.line, name)
                 THEN {[found |-> TRUE, line |-> r.line,
                        fault |-> fault \/ r.fault]}
                 ELSE ScanLoop(s, r.pos, r.bufsize, r.err,
                               fault \/ r.fault, name)
            ELSE {[found |-> FALSE, line |-> <<>>,
                   fault |-> fault \/ r.fault]}
          : r \in read_line(s, pos, bufsize, err) }

\* lines 252-270
ScanPasswd(p) ==
    /\ Runnable(p) /\ pc[p] = "scan"
    /\ \E r \in ScanLoop(passwd, 1, 0, FALSE, FALSE, username[p]) :
         /\ r.fault => mayFail
         /\ hFault' = Set(hFault, p, hFault[p] \/ r.fault)
         /\ IF r.found
            THEN /\ userline' = Set(userline, p, r.line)
                 /\ Goto(p, "fopen_local")
            ELSE /\ Terminate(p, "exit1", "cant_find")
                 /\ UNCHANGED userline
    /\ UNCHANGED <<fsv, aux, hpc, username, fp, fpPos, fpErr, linesize, found,
                   status, tries, fd, eexist, outErr, sgv, umv, hsig,
                   hHandled, hCreated, hCommitted>>

\* lines 272-280: fopen(PATH_PASSWD_LOCAL, "r"); ENOENT prints nothing
FopenLocal(p) ==
    /\ Runnable(p) /\ pc[p] = "fopen_local"
    /\ IF mirror = {}
       THEN /\ Terminate(p, "exit1", "none")
            /\ hFault' = Set(hFault, p, TRUE)
            /\ UNCHANGED <<fp, fpPos, fpErr>>
       ELSE \E ok \in {TRUE} \cup {~mayFail} :
              IF ok
              THEN /\ fp' = Set(fp, p, mirror)
                   /\ fpPos' = Set(fpPos, p, 1)
                   /\ fpErr' = Set(fpErr, p, FALSE)
                   /\ Goto(p, "sigblock")
                   /\ UNCHANGED hFault
              ELSE /\ Terminate(p, "exit1", "cant_read_local")
                   /\ hFault' = Set(hFault, p, TRUE)
                   /\ UNCHANGED <<fp, fpPos, fpErr>>
    /\ UNCHANGED <<fsv, aux, hpc, username, userline, linesize, found, status,
                   tries, fd, eexist, outErr, sgv, umv, hsig, hHandled,
                   hCreated, hCommitted>>

\* line 294: sigprocmask(SIG_BLOCK, &mask, &omask)
SigBlock(p) ==
    /\ Runnable(p) /\ pc[p] = "sigblock"
    /\ omask' = Set(omask, p, sigmask[p])
    /\ sigmask' = Set(sigmask, p, sigmask[p] \cup Sigs)
    /\ Goto(p, "umask0")
    /\ UNCHANGED <<fsv, aux, hpc, loc, disp, pending, sigsLeft, sigsUsed, mayFail,
                   umv, hist>>

\* umask called with the mask it returns: nothing is cleared
UmaskZeroKeepsMask(p) ==
    /\ Runnable(p) /\ pc[p] = "umask0"
    /\ oldumask' = Set(oldumask, p, umask[p])
    /\ Goto(p, "open")
    /\ UNCHANGED <<fsv, aux, hpc, loc, sgv, umask, hist>>

\* line 295: oldumask = umask(0)
UmaskZero(p) ==
    /\ Runnable(p) /\ pc[p] = "umask0"
    /\ oldumask' = Set(oldumask, p, umask[p])
    /\ umask' = Set(umask, p, {})
    /\ Goto(p, "open")
    /\ UNCHANGED <<fsv, aux, hpc, loc, sgv, hist>>

\* the permission bits open() gives a new file
CreateModeMasked(mode, mask) == mode \ mask

\* line 296: open(PATH_PASSWD_LOCAL_TMP, O_RDWR|O_CREAT|O_EXCL, PLTMP_MODE)
OpenTmp(p) ==
    /\ Runnable(p) /\ pc[p] = "open"
    /\ \/ /\ tmp # {}                       \* EEXIST
          /\ fd' = Set(fd, p, {})
          /\ eexist' = Set(eexist, p, TRUE)
          /\ hFault' = Set(hFault, p, TRUE)
          /\ UNCHANGED <<files, fmode, tmp, hCreated>>
       \/ /\ tmp = {}                       \* created
          /\ files' = Set(files, p, <<>>)
          /\ fmode' = Set(fmode, p, CreateModeMasked(PLTMP_MODE, umask[p]))
          /\ tmp' = {p}
          /\ fd' = Set(fd, p, {p})
          /\ hCreated' = Set(hCreated, p, TRUE)
          /\ UNCHANGED <<eexist, hFault>>
       \/ /\ mayFail                         \* any other error
          /\ fd' = Set(fd, p, {})
          /\ eexist' = Set(eexist, p, FALSE)
          /\ hFault' = Set(hFault, p, TRUE)
          /\ UNCHANGED <<files, fmode, tmp, hCreated>>
    /\ hOpens' = Set(hOpens, p, hOpens[p] + 1)
    /\ Goto(p, "umask_restore")
    /\ UNCHANGED <<passwd, hent, hrd, hDiscarded, mirror, hpc, username, userline, fp, fpPos, fpErr,
                   linesize, found, status, tries, outErr, sgv, umv, hsig,
                   hHandled, hCommitted>>

\* line 297: umask(oldumask)
UmaskRestore(p) ==
    /\ Runnable(p) /\ pc[p] = "umask_restore"
    /\ umask' = Set(umask, p, oldumask[p])
    /\ Goto(p, IF fd[p] # {} THEN "sigaction" ELSE "setmask")
    /\ UNCHANGED <<fsv, aux, hpc, loc, sgv, oldumask, hist>>

\* cleanup installed for SIGHUP only
InstallHandlerOnlySighup(p) ==
    /\ Runnable(p) /\ pc[p] = "sigaction"
    /\ disp' = Set(disp, p, [disp[p] EXCEPT !["SIGHUP"] = "cleanup"])
    /\ Goto(p, "setmask")
    /\ UNCHANGED <<fsv, aux, hpc, loc, sigmask, omask, pending, sigsLeft, sigsUsed,
                   mayFail, umv, hist>>

\* lines 298-307: install cleanup for the four signals
InstallHandler(p) ==
    /\ Runnable(p) /\ pc[p] = "sigaction"
    /\ disp' = Set(disp, p, [s \in Sigs |-> "cleanup"])
    /\ Goto(p, "setmask")
    /\ UNCHANGED <<fsv, aux, hpc, loc, sigmask, omask, pending, sigsLeft, sigsUsed,
                   mayFail, umv, hist>>

\* line 308: sigprocmask(SIG_SETMASK, &omask, NULL)
SigSetmask(p) ==
    /\ Runnable(p) /\ pc[p] = "setmask"
    /\ sigmask' = Set(sigmask, p, omask[p])
    /\ Goto(p, "loop_test")
    /\ UNCHANGED <<fsv, aux, hpc, loc, omask, disp, pending, sigsLeft, sigsUsed,
                   mayFail, umv, hist>>

\* the loop retrying after any failure of open, whatever errno says
LoopTestRetriesAnyError(p) ==
    /\ Runnable(p) /\ pc[p] = "loop_test"
    /\ IF fd[p] # {}
       THEN Goto(p, "fdopen") /\ UNCHANGED tries
       ELSE /\ tries' = Set(tries, p, tries[p] + 1)
            /\ Goto(p, IF tries[p] + 1 < MaxTries THEN "sigblock"
                       ELSE "fdopen")
    /\ UNCHANGED <<fsv, aux, hpc, username, userline, fp, fpPos, fpErr, linesize,
                   found, status, fd, eexist, outErr, sgv, umv, hist>>

\* lines 309-311, sleep(1) included, and the loop header of line 292; errno
\* is taken to be what open left (umask and sigprocmask succeed)
LoopTest(p) ==
    /\ Runnable(p) /\ pc[p] = "loop_test"
    /\ IF fd[p] # {} \/ ~eexist[p]
       THEN Goto(p, "fdopen") /\ UNCHANGED tries
       ELSE /\ tries' = Set(tries, p, tries[p] + 1)
            /\ Goto(p, IF tries[p] + 1 < MaxTries THEN "sigblock"
                       ELSE "fdopen")
    /\ UNCHANGED <<fsv, aux, hpc, username, userline, fp, fpPos, fpErr, linesize,
                   found, status, fd, eexist, outErr, sgv, umv, hist>>

\* lines 313-324 and 330: fd == -1, or fdopen(fd, "w")
Fdopen(p) ==
    /\ Runnable(p) /\ pc[p] = "fdopen"
    /\ IF fd[p] = {}
       THEN /\ Terminate(p, "exit1", "cant_open_tmp")
            /\ UNCHANGED <<found, hFault>>
       ELSE \E ok \in {TRUE} \cup {~mayFail} :
              IF ok
              THEN /\ found' = Set(found, p, FALSE)
                   /\ Goto(p, "copy")
                   /\ UNCHANGED hFault
              ELSE /\ pc' = Set(pc, p, "fail_block")
                   /\ diag' = Set(diag, p, "cant_open_tmp")
                   /\ hFault' = Set(hFault, p, TRUE)
                   /\ UNCHANGED <<exit, found>>
    /\ UNCHANGED <<fsv, aux, hpc, username, userline, fp, fpPos, fpErr, linesize,
                   status, tries, fd, eexist, outErr, sgv, umv, hsig,
                   hHandled, hCreated, hCommitted>>

\* line 320: sigprocmask(SIG_BLOCK, &mask, NULL)
FailBlock(p) ==
    /\ Runnable(p) /\ pc[p] = "fail_block"
    /\ sigmask' = Set(sigmask, p, sigmask[p] \cup Sigs)
    /\ Goto(p, "fail_unlink")
    /\ UNCHANGED <<fsv, aux, hpc, loc, omask, disp, pending, sigsLeft, sigsUsed,
                   mayFail, umv, hist>>

\* lines 321-323: unlink(PATH_PASSWD_LOCAL_TMP); exit(1)
FailUnlink(p) ==
    /\ Runnable(p) /\ pc[p] = "fail_unlink"
    /\ tmp' = {}
    /\ hDiscarded' = Set(hDiscarded, p, TRUE)
    /\ Terminate(p, "exit1", diag[p])
    /\ UNCHANGED <<passwd, hent, hrd, hOpens, files, fmode, mirror, hpc, loc, sgv, umv, hist>>

\* the iteration replacing a line without looking at its user field
CopyOutputIgnoresMatch(line, name, uline, fnd) ==
    (IF ~fnd THEN uline ELSE line) \o <<NL>>

\* the iteration as if read_line had left the newline in the buffer
CopyOutputKeepsNewline(line, name, uline, fnd) ==
    (IF ~fnd /\ IsMatch(line, name) THEN uline ELSE line) \o <<NL, NL>>

\* the iteration copying the old record
CopyOutputCopiesLine(line, name, uline, fnd) == line \o <<NL>>

\* lines 333-340: what one iteration of the copy loop writes for `line'
CopyOutput(line, name, uline, fnd) ==
    (IF ~fnd /\ IsMatch(line, name) THEN uline ELSE line) \o <<NL>>

\* `found' set by any line
CopyFoundAnyLine(line, name, fnd) == TRUE

\* lines 333-337: `found' after the iteration
CopyFound(line, name, fnd) == fnd \/ IsMatch(line, name)

(***************************************************************************)
(* Lines 331-344: one iteration of the copy loop, or its end.  The output  *)
(* of fputs and putc is taken to reach the file at once; a failing write   *)
(* sets the error indicator of fp_out and what it wrote is not kept.       *)
(***************************************************************************)
CopyLine(p) ==
    /\ Runnable(p) /\ pc[p] = "copy"
    /\ \E r \in read_line(files[The(fp[p])], fpPos[p], linesize[p], fpErr[p]) :
         /\ r.fault => mayFail
         /\ fpPos' = Set(fpPos, p, r.pos)
         /\ linesize' = Set(linesize, p, r.bufsize)
         /\ fpErr' = Set(fpErr, p, r.err)
         /\ IF r.ret = 0
            THEN /\ found' = Set(found, p,
                                 CopyFound(r.line, username[p], found[p]))
                 /\ \E wok \in {TRUE} \cup {~mayFail} :
                      IF wok /\ ~outErr[p]
                      THEN /\ files' = Set(files, The(fd[p]),
                                  files[The(fd[p])] \o
                                  CopyOutput(r.line, username[p],
                                             userline[p], found[p]))
                           /\ hFault' = Set(hFault, p, hFault[p] \/ r.fault)
                           /\ UNCHANGED outErr
                      ELSE /\ outErr' = Set(outErr, p, TRUE)
                           /\ hFault' = Set(hFault, p, TRUE)
                           /\ UNCHANGED files
                 /\ UNCHANGED <<status, fp>>
                 /\ Goto(p, "copy")
            ELSE /\ status' = Set(status, p, r.ret)
                 /\ fp' = Set(fp, p, {})
                 /\ hFault' = Set(hFault, p, hFault[p] \/ r.fault)
                 /\ Goto(p, "commit_block")
                 /\ UNCHANGED <<files, found, outErr>>
    /\ UNCHANGED <<passwd, aux, fmode, mirror, tmp, hpc, username, userline,
                   tries, fd, eexist, sgv, umv, hsig, hHandled, hCreated,
                   hCommitted>>

\* line 349: sigprocmask(SIG_BLOCK, &mask, NULL)
CommitBlock(p) ==
    /\ Runnable(p) /\ pc[p] = "commit_block"
    /\ sigmask' = Set(sigmask, p, sigmask[p] \cup Sigs)
    /\ Goto(p, "check_found")
    /\ UNCHANGED <<fsv, aux, hpc, loc, omask, disp, pending, sigsLeft, sigsUsed,
                   mayFail, umv, hist>>

\* the early return without its unlink
SkipUpdateWithoutUnlink(p) ==
    /\ Runnable(p) /\ pc[p] = "check_found"
    /\ ~found[p]
    /\ Goto(p, "return")
    /\ UNCHANGED <<fsv, aux, hpc, loc, sgv, umv, hist>>

\* lines 351-357: nothing was replaced; fclose, unlink, return
SkipUpdate(p) ==
    /\ Runnable(p) /\ pc[p] = "check_found"
    /\ ~found[p]
    /\ tmp' = {}
    /\ hDiscarded' = Set(hDiscarded, p, TRUE)
    /\ Goto(p, "return")
    /\ UNCHANGED <<passwd, hent, hrd, hOpens, files, fmode, mirror, hpc, loc, sgv, umv, hist>>

\* lines 359-366: status < 0 || ferror(fp_out) || fclose(fp_out) == EOF
CheckCopy(p) ==
    /\ Runnable(p) /\ pc[p] = "check_found"
    /\ found[p]
    /\ \E closed \in {TRUE} \cup {~mayFail} :
         IF status[p] < 0 \/ outErr[p] \/ ~closed
         THEN /\ tmp' = {}
              /\ hDiscarded' = Set(hDiscarded, p, TRUE)
              /\ Terminate(p, "exit1", "error_copying")
              /\ hFault' = Set(hFault, p, TRUE)
         ELSE /\ Goto(p, "rename")
              /\ UNCHANGED <<tmp, hFault, hDiscarded>>
    /\ UNCHANGED <<passwd, hent, hrd, hOpens, files, fmode, mirror, hpc, loc, sgv, umv, hsig,
                   hHandled, hCreated, hCommitted>>

\* what a successful rename(PATH_PASSWD_LOCAL_TMP, PATH_PASSWD_LOCAL) leaves
\* at PATH_PASSWD_LOCAL
RenamedOnto(old, new) == new

\* lines 369-374: rename; it fails when the path is gone, or for any other
\* reason, and then leaves both paths as they were
Rename(p) ==
    /\ Runnable(p) /\ pc[p] = "rename"
    /\ \/ /\ tmp # {}
          /\ mirror' = RenamedOnto(mirror, tmp)
          /\ tmp' = {}
          /\ hCommitted' = Set(hCommitted, p, TRUE)
          /\ hDiscarded' = Set(hDiscarded, p, TRUE)
          /\ Goto(p, "return")
          /\ UNCHANGED hFault
       \/ /\ mayFail \/ tmp = {}
          /\ pc' = Set(pc, p, "rename_failed")
          /\ diag' = Set(diag, p, "error_renaming")
          /\ hFault' = Set(hFault, p, TRUE)
          /\ UNCHANGED <<exit, mirror, tmp, hCommitted, hDiscarded>>
    /\ UNCHANGED <<passwd, hent, hrd, hOpens, files, fmode, hpc, loc, sgv, umv, hsig, hHandled,
                   hCreated>>

\* the failed rename followed by a return instead of exit(1)
RenameFailedReturns(p) ==
    /\ Runnable(p) /\ pc[p] = "rename_failed"
    /\ tmp' = {}
    /\ hDiscarded' = Set(hDiscarded, p, TRUE)
    /\ Goto(p, "return")
    /\ UNCHANGED <<passwd, hent, hrd, hOpens, files, fmode, mirror, hpc, loc, sgv, umv, hist>>

\* lines 375-376: unlink(PATH_PASSWD_LOCAL_TMP); exit(1)
RenameFailed(p) ==
    /\ Runnable(p) /\ pc[p] = "rename_failed"
    /\ tmp' = {}
    /\ hDiscarded' = Set(hDiscarded, p, TRUE)
    /\ Terminate(p, "exit1", diag[p])
    /\ UNCHANGED <<passwd, hent, hrd, hOpens, files, fmode, mirror, hpc, loc, sgv, umv, hist>>

\* lines 356 / 378 and 210-211: update_passwd_local returns, main returns 0
Return(p) ==
    /\ Runnable(p) /\ pc[p] = "return"
    /\ Terminate(p, "exit0", diag[p])
    /\ UNCHANGED <<fsv, aux, hpc, loc, sgv, umv, hist>>

(***************************************************************************)
(* Signals.  A signal of Sigs sent to a process is delivered at once when  *)
(* the process does not block it and stays pending otherwise.  Delivery    *)
(* follows the disposition: the default terminates the process, SIG_IGN    *)
(* drops the signal, cleanup runs with the signal added to the mask        *)
(* (sa_mask is empty, sa_flags is 0: the other three are not blocked).     *)
(***************************************************************************)
Deliver(p, s) ==
    IF disp[p][s] = "cleanup"
    THEN /\ hpc' = Set(hpc, p, "unlink")
         /\ sigmask' = Set(sigmask, p, sigmask[p] \cup {s})
         /\ hHandled' = Set(hHandled, p, TRUE)
         /\ UNCHANGED <<pc, exit, diag>>
    ELSE IF disp[p][s] = "dfl"
    THEN /\ Terminate(p, "killed", diag[p])
         /\ UNCHANGED <<hpc, sigmask, hHandled>>
    ELSE UNCHANGED <<pc, exit, diag, hpc, sigmask, hHandled>>

(***************************************************************************)
(* The code treats the four signals alike (lines 283-286, 303-306), so the *)
(* environment may use them in one fixed order: a signal it has not sent   *)
(* yet is sent only after those before it in SigOrder that the masks at    *)
(* entry treat like it.                                                    *)
(***************************************************************************)
SigOrder == <<"SIGHUP", "SIGINT", "SIGQUIT", "SIGTERM">>

MaySend(s) ==
    \/ s \in sigsUsed
    \/ \E k \in 1..Len(SigOrder) :
         /\ SigOrder[k] = s
         /\ \A j \in 1..(k - 1) :
              (\A q \in Procs : (SigOrder[j] \in hMask0[q]) = (s \in hMask0[q]))
                  => SigOrder[j] \in sigsUsed

\* the positions after the sigprocmask of line 349
AfterCommitBlock == {"check_found", "rename", "rename_failed", "return"}

\* the environment sends signal s to process p
SendSignal(p, s) ==
    /\ exit[p] = "running"
    /\ sigsLeft > 0
    /\ MaySend(s)
    /\ sigsLeft' = sigsLeft - 1
    /\ sigsUsed' = sigsUsed \cup {s}
    /\ hSent' = Set(hSent, p, hSent[p] \/ (hCreated[p] /\ ~hCommitted[p]))
    /\ hSentOpen' = Set(hSentOpen, p,
                        hSentOpen[p] \/ (/\ hCreated[p]
                                         /\ pc[p] \notin AfterCommitBlock
                                         /\ s \notin omask[p]))
    /\ IF s \in sigmask[p]
       THEN /\ pending' = Set(pending, p, pending[p] \cup {s})
            /\ UNCHANGED <<pc, exit, diag, hpc, sigmask, hHandled>>
       ELSE /\ Deliver(p, s)
            /\ UNCHANGED pending
    /\ UNCHANGED <<fsv, aux, loc, omask, disp, mayFail, umv, hFault, hCreated,
                   hCommitted>>

\* a pending signal is delivered once the mask lets it through
DeliverPending(p, s) ==
    /\ exit[p] = "running"
    /\ s \in pending[p] \ sigmask[p]
    /\ pending' = Set(pending, p, pending[p] \ {s})
    /\ Deliver(p, s)
    /\ UNCHANGED <<fsv, aux, loc, omask, disp, sigsLeft, sigsUsed, mayFail, umv,
                   hFault, hsig, hCreated, hCommitted>>

\* cleanup without its unlink
CleanupWithoutUnlink(p) ==
    /\ exit[p] = "running" /\ hpc[p] = "unlink"
    /\ pending[p] \ sigmask[p] = {}
    /\ hpc' = Set(hpc, p, "exit")
    /\ UNCHANGED <<fsv, aux, pc, exit, diag, loc, sgv, umv, hist>>

\* line 432: cleanup: unlink(PATH_PASSWD_LOCAL_TMP)
CleanupUnlink(p) ==
    /\ exit[p] = "running" /\ hpc[p] = "unlink"
    /\ pending[p] \ sigmask[p] = {}
    /\ tmp' = {}
    /\ hDiscarded' = Set(hDiscarded, p, TRUE)
    /\ hpc' = Set(hpc, p, "exit")
    /\ UNCHANGED <<passwd, hent, hrd, hOpens, files, fmode, mirror, pc, exit, diag, loc, sgv,
                   umv, hist>>

\* line 433: cleanup: exit(1)
CleanupExit(p) ==
    /\ exit[p] = "running" /\ hpc[p] = "exit"
    /\ pending[p] \ sigmask[p] = {}
    /\ Terminate(p, "exit1", diag[p])
    /\ UNCHANGED <<fsv, aux, hpc, loc, sgv, umv, hist>>

Next ==
    \E p \in Procs :
        \/ FopenPasswd(p)
        \/ ScanPasswd(p)
        \/ FopenLocal(p)
        \/ SigBlock(p)
        \/ UmaskZero(p)
        \/ OpenTmp(p)
        \/ UmaskRestore(p)
        \/ InstallHandler(p)
        \/ SigSetmask(p)
        \/ LoopTest(p)
        \/ Fdopen(p)
        \/ FailBlock(p)
        \/ FailUnlink(p)
        \/ CopyLine(p)
        \/ CommitBlock(p)
        \/ SkipUpdate(p)
        \/ CheckCopy(p)
        \/ Rename(p)
        \/ RenameFailed(p)
        \/ Return(p)
        \/ CleanupUnlink(p)
        \/ CleanupExit(p)
        \/ \E s \in Sigs : SendSignal(p, s) \/ DeliverPending(p, s)

Spec == Init /\ [][Next]_vars

\* two invocations at the same time, for the same or for different users
InitConc ==
    InitWith({"p1", "p2"}, Users, {FileOf(<<RecAB4, RecA2, RecA1>>)},
             {FileOf(<<RecA1, RecAB3>>)}, FALSE, FALSE, {{}}, {"dfl"},
             {{"S_IWGRP", "S_IWOTH"}}, MaxSignals, TRUE)

SpecConc == InitConc /\ [][Next]_vars

(***************************************************************************)
(* Two invocations in a row for the same user, PATH_PASSWD unchanged, in   *)
(* an environment that sends no signal and lets no call fail: main         *)
(* (lines 69-212) runs again once the first process is gone.               *)
(***************************************************************************)
Invoke(p, q) ==
    /\ exit[p] = "idle" /\ Terminated(q)
    /\ \A r \in Procs : exit[r] # "running"
    /\ pc' = Set(pc, p, "fopen_passwd")
    /\ exit' = Set(exit, p, "running")
    /\ username' = Set(username, p, username[q])
    /\ UNCHANGED <<fsv, aux, hpc, diag, userline, fp, fpPos, fpErr, linesize, found,
                   status, tries, fd, eexist, outErr, sgv, umv, hist>>

InitSeq ==
    InitWith({"p1"}, Users, PasswdFiles, MirrorFiles, FALSE, FALSE, {{}},
             {"dfl"}, {{"S_IWGRP", "S_IWOTH"}}, 0, FALSE)

NextSeq ==
    \/ \E p \in Procs :
          \/ FopenPasswd(p)
          \/ ScanPasswd(p)
          \/ FopenLocal(p)
          \/ SigBlock(p)
          \/ UmaskZero(p)
          \/ OpenTmp(p)
          \/ UmaskRestore(p)
          \/ InstallHandler(p)
          \/ SigSetmask(p)
          \/ LoopTest(p)
          \/ Fdopen(p)
          \/ CopyLine(p)
          \/ CommitBlock(p)
          \/ SkipUpdate(p)
          \/ CheckCopy(p)
          \/ Rename(p)
          \/ Return(p)
    \/ Invoke("p2", "p1")

SpecSeq == InitSeq /\ [][NextSeq]_vars

(***************************************************************************)
(* One invocation by a caller whose signal mask, dispositions of the four  *)
(* signals (SIG_DFL or SIG_IGN, what exec passes on) and file-creation     *)
(* mask vary; PATH_PASSWD_LOCAL_TMP may be occupied.                       *)
(***************************************************************************)
EntryMasks == {{}, {"SIGTERM"}, Sigs}
EntryDisps == {"dfl", "ign"}
EntryUmasks ==
    { {}, {"S_IWGRP", "S_IWOTH"},
      {"S_IRGRP", "S_IWGRP", "S_IROTH", "S_IWOTH"}, {"S_IRUSR", "S_IWUSR"} }

InitSig ==
    InitWith({"p1"}, Users, {FileOf(<<RecAB4, RecA2, RecA1>>)},
             {FileOf(<<RecA1>>), Unterminated(<<RecA1, RecAB3>>)}, FALSE, TRUE,
             EntryMasks, EntryDisps, EntryUmasks, MaxSignals, TRUE)

SpecSig == InitSig /\ [][Next]_vars

(***************************************************************************)
(* Up to three invocations that overlap, no call failing for reasons       *)
(* outside the two paths; the environment sends up to MaxRaceSignals       *)
(* signals.  Of all schedules, those in which main (lines 69-212) of a     *)
(* further process reaches update_passwd_local while                       *)
(* PATH_PASSWD_LOCAL_TMP is free and every running process has passed its  *)
(* creation of the file: no process has to wait in the loop of line 292.   *)
(* (fdopen cannot fail here, so the steps of lines 320-323 are left out.)  *)
(***************************************************************************)
InvokeWhenFree(p) ==
    /\ exit[p] = "idle"
    /\ tmp = {}
    /\ \A q \in Procs : exit[q] = "running" => hCreated[q]
    /\ pc' = Set(pc, p, "fopen_passwd")
    /\ exit' = Set(exit, p, "running")
    /\ UNCHANGED <<fsv, aux, hpc, diag, loc, sgv, umv, hist>>

InitRace ==
    InitWith({"p1"}, Users, {FileOf(<<RecAB4, RecA2>>)},
             {FileOf(<<RecA1>>)}, FALSE, FALSE, {{}}, {"dfl"},
             {{"S_IWGRP", "S_IWOTH"}}, MaxRaceSignals, FALSE)

NextRace ==
    \E p \in Procs :
        \/ InvokeWhenFree(p)
        \/ FopenPasswd(p)
        \/ ScanPasswd(p)
        \/ FopenLocal(p)
        \/ SigBlock(p)
        \/ UmaskZero(p)
        \/ OpenTmp(p)
        \/ UmaskRestore(p)
        \/ InstallHandler(p)
        \/ SigSetmask(p)
        \/ LoopTest(p)
        \/ Fdopen(p)
        \/ CopyLine(p)
        \/ CommitBlock(p)
        \/ SkipUpdate(p)
        \/ CheckCopy(p)
        \/ Rename(p)
        \/ RenameFailed(p)
        \/ Return(p)
        \/ CleanupUnlink(p)
        \/ CleanupExit(p)
        \/ \E s \in Sigs : SendSignal(p, s) \/ DeliverPending(p, s)

SpecRace == InitRace /\ [][NextRace]_vars

(***************************************************************************)
(* The line reader alone: a caller that calls read_line again and again on *)
(* one stream with one buffer (the use the comment of lines 380-388        *)
(* describes), in an environment where no read and no allocation fails.    *)
(* The stream is the content of inode "local"; the caller's buffer         *)
(* capacity, stream position and error indicator are those of process p.   *)
(***************************************************************************)
\* lines shorter than the first capacity, filling it exactly (126 and the
\* newline), one longer, and the same for the doubled capacity
ReaderLines ==
    { <<>>, <<"a", ":", "1">>, Rep("p", BufInit - 2), Rep("q", BufInit - 1),
      Rep("r", 2 * BufInit - 2), Rep("s", 2 * BufInit - 1) }

ReaderStreams ==
    LET seqs == UNION {[1..k -> ReaderLines] : k \in 0..MaxReaderLines}
    IN  {FileOf(ls) : ls \in seqs} \cup
        {Unterminated(ls) : ls \in seqs \ {<<>>}}

InitReader ==
    InitWith({}, {UserA}, {<<>>}, ReaderStreams, FALSE, FALSE, {{}}, {"dfl"},
             {{}}, 0, FALSE)

ReadLineCall(p) ==
    /\ exit[p] = "idle"
    /\ Cardinality({i \in 1..Len(hRets) : hRets[i] # 0}) < MaxEofCalls
    /\ \E r \in read_line(files["local"], fpPos[p], linesize[p], fpErr[p]) :
         /\ ~r.fault
         /\ fpPos' = Set(fpPos, p, r.pos)
         /\ linesize' = Set(linesize, p, r.bufsize)
         /\ fpErr' = Set(fpErr, p, r.err)
         /\ hRets' = Append(hRets, r.ret)
         /\ hLines' = IF r.ret = 0 THEN Append(hLines, r.line) ELSE hLines
    /\ UNCHANGED <<fsv, ctl, username, userline, fp, found, status, tries, fd,
                   eexist, outErr, sgv, umv, hist, hent, hOpens, hDiscarded>>

NextReader == ReadLineCall("p1")

SpecReader == InitReader /\ [][NextReader]_vars

(***************************************************************************)
(* What the specification says of the files, written without the code's    *)
(* line reader: the lines of a file, the user field of a line, the record  *)
(* of a user in PATH_PASSWD and the file a completed update leaves.        *)
(***************************************************************************)
RECURSIVE SplitLines(_)
\* the lines of a file: the text before each newline, and what follows the
\* last newline when that is not empty
SplitLines(b) ==
    LET nls == {k \in 1..Len(b) : b[k] = NL}
    IN  IF b = <<>> THEN <<>>
        ELSE IF nls = {} THEN <<b>>
        ELSE <<SubSeq(b, 1, Min(nls) - 1)>> \o
             SplitLines(SubSeq(b, Min(nls) + 1, Len(b)))

\* the text of `line' before its first colon is exactly `name'
HasUser(line, name) ==
    \E k \in 1..Len(line) :
        /\ line[k] = COLON
        /\ \A j \in 1..(k - 1) : line[j] # COLON
        /\ SubSeq(line, 1, k - 1) = name

\* the positions of the lines of ls that belong to `name'
Matches(ls, name) == {k \in 1..Len(ls) : HasUser(ls[k], name)}

\* the number of lines of the file b that belong to `name'
Count(b, name) == Cardinality(Matches(SplitLines(b), name))

HasAuth(name) == Matches(SplitLines(passwd), name) # {}

\* the first record of `name' in PATH_PASSWD
AuthRecord(name) ==
    SplitLines(passwd)[Min(Matches(SplitLines(passwd), name))]

\* the file b with its first line of `name' replaced by rec
Updated(b, name, rec) ==
    LET ls == SplitLines(b)
    IN  FileOf([k \in 1..Len(ls) |->
                  IF k = Min(Matches(ls, name)) THEN rec ELSE ls[k]])

\* the pre-run content of PATH_PASSWD_LOCAL: no step writes inode "local"
Pre == files["local"]

\* what a reader of PATH_PASSWD_LOCAL sees
MirrorState ==
    IF mirror = {} THEN <<"absent">> ELSE <<"present", files[The(mirror)]>>

\* the complete post-update content for the invocation of process p
Post(p) == Updated(Pre, username[p], AuthRecord(username[p]))

(***************************************************************************)
(* C1: with one invocation and no other process, PATH_PASSWD_LOCAL holds   *)
(* in every state either its pre-run content or the complete post-update   *)
(* content (the pre-run lines with the first line of username replaced by  *)
(* the record of PATH_PASSWD), and it changes only in the rename step,     *)
(* from the former to the latter; failures and signals included.           *)
(***************************************************************************)
C1_PreOrPost ==
    \/ MirrorState \in {<<"absent">>, <<"present", Pre>>}
    \/ /\ HasAuth(username["p1"])
       /\ Matches(SplitLines(Pre), username["p1"]) # {}
       /\ MirrorState = <<"present", Post("p1")>>

C1_OnlyByRename ==
    MirrorState' # MirrorState =>
        /\ pc["p1"] = "rename" /\ pc'["p1"] = "return"
        /\ MirrorState = <<"present", Pre>>

C1_ReplaceOrDiscard == []C1_PreOrPost /\ [][C1_OnlyByRename]_vars

(***************************************************************************)
(* C2 as stated: a signal sent to the process at any point after it has    *)
(* created the temporary file and before the rename leaves, once the       *)
(* process has terminated, PATH_PASSWD_LOCAL with its pre-run content and  *)
(* no file at PATH_PASSWD_LOCAL_TMP.                                       *)
(***************************************************************************)
C2_AnySignalBeforeRename ==
    (Terminated("p1") /\ hSent["p1"]) =>
        (MirrorState = <<"present", Pre>> /\ tmp = {})

(***************************************************************************)
(* C2 amended: a signal that the caller's mask lets through and that is    *)
(* sent after the temporary file has been created and before the signals   *)
(* are blocked at line 349 leaves, once the process has terminated,        *)
(* PATH_PASSWD_LOCAL with its pre-run content and no file at               *)
(* PATH_PASSWD_LOCAL_TMP.  (A signal sent after line 349 stays pending and *)
(* the run may commit.)                                                    *)
(***************************************************************************)
C2_SignalBeforeCommitBlock ==
    (Terminated("p1") /\ hSentOpen["p1"]) =>
        (MirrorState = <<"present", Pre>> /\ tmp = {} /\ exit["p1"] = "exit1")

\* cleanup has run on a partly written temporary file and the process is gone
C2_Witness ==
    /\ Terminated("p1") /\ hSentOpen["p1"] /\ hHandled["p1"]
    /\ files["p1"] # <<>>
    /\ Pre # files["p1"]

(***************************************************************************)
(* C3: once a process that ran update_passwd_local has exited (return,     *)
(* exit(1), or cleanup), the file it created is not at                     *)
(* PATH_PASSWD_LOCAL_TMP: it has been renamed onto PATH_PASSWD_LOCAL or it *)
(* has been unlinked.                                                      *)
(***************************************************************************)
C3_NoStagingLeftBehind ==
    \A p \in Procs :
        (Terminated(p) /\ hCreated[p]) =>
            /\ tmp # {p}
            /\ \/ hCommitted[p] /\ mirror = {p}
               \/ ~hCommitted[p] /\ mirror # {p}

\* exits of each kind after the temporary file was created
C3_Witness ==
    /\ exit["p1"] = "exit1" /\ hCreated["p1"] /\ ~hHandled["p1"]
    /\ diag["p1"] = "error_copying"

(***************************************************************************)
(* C4: concurrent invocations do not corrupt PATH_PASSWD_LOCAL: once all   *)
(* have terminated, it equals the result of executing the invocations that *)
(* committed one after another in some order, so that no committed         *)
(* replacement is lost.                                                    *)
(***************************************************************************)
\* what one complete invocation for `name' makes of the file b
Apply(b, name) ==
    IF HasAuth(name) /\ Matches(SplitLines(b), name) # {}
    THEN Updated(b, name, AuthRecord(name))
    ELSE b

RECURSIVE ApplySeq(_, _)
ApplySeq(b, ps) ==
    IF ps = <<>> THEN b
    ELSE ApplySeq(Apply(b, username[Head(ps)]), Tail(ps))

\* the orders in which the processes of S can run one after another
Orders(S) ==
    {f \in [1..Cardinality(S) -> S] :
        \A i, j \in 1..Cardinality(S) : f[i] = f[j] => i = j}

Committed == {p \in Procs : hCommitted[p]}

AllTerminated == \A p \in Procs : exit[p] # "running"

C4_Serializable ==
    AllTerminated =>
        \E f \in Orders(Committed) :
            MirrorState = <<"present", ApplySeq(Pre, f)>>

\* a run of process p in which no call failed and no signal was sent
CleanRun(p) == ~hFault[p] /\ sigsUsed = {}

(***************************************************************************)
(* C5: when PATH_PASSWD and PATH_PASSWD_LOCAL both hold a line whose text  *)
(* before the first colon is exactly username, a run without errors or     *)
(* signals leaves PATH_PASSWD_LOCAL equal to its pre-run lines with only   *)
(* the first such line replaced by the first such line of PATH_PASSWD; a   *)
(* line whose first field has username as a proper prefix is no match.     *)
(***************************************************************************)
C5_FirstMatchReplaced ==
    ( /\ Terminated("p1") /\ CleanRun("p1")
      /\ HasAuth(username["p1"])
      /\ Matches(SplitLines(Pre), username["p1"]) # {} )
    => ( /\ exit["p1"] = "exit0"
         /\ hCommitted["p1"]
         /\ MirrorState = <<"present", Post("p1")>> )

\* user a is replaced behind a line of user ab, from a source that holds
\* ab first and a twice
C5_Witness ==
    /\ exit["p1"] = "exit0" /\ CleanRun("p1") /\ hCommitted["p1"]
    /\ username["p1"] = UserA
    /\ Pre = FileOf(<<RecAB3, RecA1>>)
    /\ passwd = FileOf(<<RecAB4, RecA2, RecA1>>)
    /\ MirrorState = <<"present", FileOf(<<RecAB3, RecA2>>)>>

(***************************************************************************)
(* C6 as stated: after any successful run, for any pre-run content, the    *)
(* file PATH_PASSWD_LOCAL holds at most one line of each user.             *)
(***************************************************************************)
C6_AtMostOneAfterAnyRun ==
    (exit["p1"] = "exit0" /\ mirror # {}) =>
        \A u \in Users : Count(files[The(mirror)], u) <= 1

(***************************************************************************)
(* C6 for the pre-run files that satisfy it: after any successful run on a *)
(* pre-run PATH_PASSWD_LOCAL that holds at most one line of each user,     *)
(* PATH_PASSWD_LOCAL holds at most one line of each user.                  *)
(***************************************************************************)
C6_AtMostOnePreserved ==
    ( /\ exit["p1"] = "exit0" /\ mirror # {}
      /\ \A u \in Users : Count(Pre, u) <= 1 )
    => \A u \in Users : Count(files[The(mirror)], u) <= 1

(***************************************************************************)
(* C7: idempotence.  Two runs in a row for the same user with PATH_PASSWD  *)
(* unchanged: PATH_PASSWD_LOCAL after the second run is byte-identical to  *)
(* PATH_PASSWD_LOCAL after the first.                                      *)
(***************************************************************************)
\* PATH_PASSWD_LOCAL as the first run left it
AfterFirstRun == IF hCommitted["p1"] THEN files["p1"] ELSE Pre

C7_Idempotent ==
    (exit["p1"] = "exit0" /\ exit["p2"] = "exit0") =>
        MirrorState = <<"present", AfterFirstRun>>

\* both runs committed, on a pre-run file with two lines of the user whose
\* last line has no newline
C7_Witness ==
    /\ exit["p1"] = "exit0" /\ exit["p2"] = "exit0"
    /\ hCommitted["p1"] /\ hCommitted["p2"]
    /\ Count(Pre, username["p1"]) = 2
    /\ Pre # <<>> /\ Pre[Len(Pre)] # NL

(***************************************************************************)
(* C8: insert-skip.  PATH_PASSWD holds a record of username and            *)
(* PATH_PASSWD_LOCAL holds no line of username: a run without errors or    *)
(* signals ends with exit status zero, PATH_PASSWD_LOCAL unchanged (no     *)
(* rename) and the temporary file discarded.                               *)
(***************************************************************************)
C8_InsertSkip ==
    ( /\ Terminated("p1") /\ CleanRun("p1")
      /\ HasAuth(username["p1"])
      /\ Matches(SplitLines(Pre), username["p1"]) = {} )
    => ( /\ exit["p1"] = "exit0"
         /\ ~hCommitted["p1"]
         /\ mirror = {"local"}
         /\ hCreated["p1"] /\ tmp = {} )

\* the skip on a file with lines of the other user only
C8_Witness ==
    /\ exit["p1"] = "exit0" /\ CleanRun("p1")
    /\ username["p1"] = UserA /\ HasAuth(UserA)
    /\ Pre = Unterminated(<<RecAB3, RecABLong>>)
    /\ files["p1"] = FileOf(<<RecAB3, RecABLong>>)

Fatal(p) ==
    /\ Terminated(p)
    /\ diag[p] # "none" \/ hHandled[p] \/ exit[p] # "exit0"

C10_FatalLeavesMirror ==
    \A p \in Procs :
        Fatal(p) =>
            /\ exit[p] \in {"exit1", "killed"}
            /\ ~hCommitted[p]
            /\ MirrorState \in {<<"absent">>, <<"present", Pre>>}
            /\ mirror \subseteq {"local"}
            /\ diag[p] \in {"cant_open_passwd", "cant_find",
                            "cant_read_local"} => ~hCreated[p]
            /\ (exit[p] = "exit1" /\ diag[p] = "none" /\ ~hHandled[p])
                   => (mirror = {} /\ ~hCreated[p])

\* the rename of a completely written temporary file has failed
C10_Witness ==
    /\ exit["p1"] = "exit1" /\ diag["p1"] = "error_renaming"
    /\ HasAuth(username["p1"])
    /\ files["p1"] = Post("p1") /\ files["p1"] # Pre

(***************************************************************************)
(* C11: a process that no signal kills and whose every open of             *)
(* PATH_PASSWD_LOCAL_TMP fails with EEXIST calls open 10 times, sleeping   *)
(* after each, then exits with status 1 and the diagnostic of line 315,    *)
(* having installed no handler, unlinked or renamed nothing and left both  *)
(* paths as they were; an open that fails for another reason is the last   *)
(* one and ends in the same exit.  No process calls open more than 10      *)
(* times.                                                                  *)
(***************************************************************************)
C11_BoundedRetry ==
    \A p \in Procs :
        /\ hOpens[p] <= 10
        /\ (Terminated(p) /\ hOpens[p] > 0 /\ ~hCreated[p]
                /\ exit[p] # "killed") =>
              /\ exit[p] = "exit1" /\ diag[p] = "cant_open_tmp"
              /\ disp[p] = hDisp0[p] /\ ~hHandled[p]
              /\ ~hDiscarded[p] /\ ~hCommitted[p]
              /\ MirrorState = <<"present", Pre>> /\ mirror = {"local"}
              /\ IF eexist[p]
                 THEN hOpens[p] = 10 /\ tries[p] = 10 /\ tmp = {"stale"}
                 ELSE hOpens[p] = tries[p] + 1

\* ten attempts on an occupied path, then the exit
C11_Witness ==
    /\ exit["p1"] = "exit1" /\ diag["p1"] = "cant_open_tmp"
    /\ eexist["p1"] /\ hOpens["p1"] = 10 /\ tmp = {"stale"}

(***************************************************************************)
(* C12: every exit(1) outside cleanup prints a diagnostic, and the         *)
(* diagnostic tells the failure class: the one printed when the path       *)
(* stayed occupied for all attempts is printed for no other creation       *)
(* error.                                                                  *)
(***************************************************************************)
C12_DistinctDiagnostics ==
    \A p \in Procs :
        /\ (exit[p] = "exit1" /\ ~hHandled[p]) => diag[p] # "none"
        /\ (exit[p] = "exit1" /\ diag[p] = "cant_open_tmp") =>
              (eexist[p] /\ ~hCreated[p])

(***************************************************************************)
(* C13: a run whose copy loop ended on a read error of PATH_PASSWD_LOCAL   *)
(* or an allocation failure (status < 0), or that had a write to the       *)
(* temporary file fail, does not return success, whether or not a line of  *)
(* username was seen; its temporary file is discarded and not renamed.     *)
(***************************************************************************)
C13_CopyErrorIsFatal ==
    \A p \in Procs :
        (Terminated(p) /\ hCreated[p] /\ (status[p] < 0 \/ outErr[p])) =>
            /\ exit[p] # "exit0"
            /\ ~hCommitted[p]
            /\ tmp # {p}

(***************************************************************************)
(* C14: mutual exclusion on PATH_PASSWD_LOCAL_TMP.  Whatever the number of *)
(* processes and the signals sent, at most one process at a time has       *)
(* created the temporary file and has not yet unlinked or renamed it       *)
(* itself.                                                                 *)
(***************************************************************************)
\* p is between its creation of the file and its own unlink or rename
Holding(p) == exit[p] = "running" /\ hCreated[p] /\ ~hDiscarded[p]

C14_MutualExclusion ==
    \A p, q \in Procs : (Holding(p) /\ Holding(q)) => p = q

(***************************************************************************)
(* C15: every unlink of PATH_PASSWD_LOCAL_TMP and the rename, those of     *)
(* cleanup run for a second signal while cleanup is between its unlink and *)
(* its exit included, finds at the path either nothing or the file the     *)
(* same process has created.                                               *)
(***************************************************************************)
\* a step of p that unlinks or renames PATH_PASSWD_LOCAL_TMP
Removes(p) ==
    \/ CleanupUnlink(p)
    \/ FailUnlink(p)
    \/ SkipUpdate(p)
    \/ CheckCopy(p) /\ pc'[p] = "done"
    \/ Rename(p) /\ pc'[p] = "return"
    \/ RenameFailed(p)

C15_OwnFileOnly ==
    [][\A p \in Procs : Removes(p) => tmp \subseteq {p}]_vars

(***************************************************************************)
(* C16: in every attempt to create the temporary file the four signals are *)
(* blocked from before the open until after the handler is installed; the  *)
(* handler is installed exactly if the open has succeeded; after the       *)
(* attempt the signal mask is the one before it.  Hence in no state does   *)
(* the file of a running process lie at PATH_PASSWD_LOCAL_TMP while a      *)
(* signal of the four is deliverable to it that would not run cleanup.     *)
(***************************************************************************)
\* from after the sigprocmask of line 294 to before that of line 308
InAttempt == {"umask0", "open", "umask_restore", "sigaction", "setmask"}

HandlerInstalled(p) == \A s \in Sigs : disp[p][s] = "cleanup"

C16_ProtectedCreation ==
    \A p \in Procs :
        /\ pc[p] \in InAttempt => (Sigs \subseteq sigmask[p] /\ hpc[p] = "none")
        /\ pc[p] \in {"setmask", "loop_test"} =>
              /\ HandlerInstalled(p) <=> fd[p] # {}
              /\ fd[p] = {} => disp[p] = hDisp0[p]
        /\ (pc[p] \in {"loop_test", "sigblock"} /\ hpc[p] = "none") =>
              sigmask[p] = hMask0[p]
        /\ (exit[p] = "running" /\ tmp = {p}) =>
              \A s \in Sigs \ sigmask[p] : disp[p][s] = "cleanup"

\* the file exists, the mask of a caller that blocks one signal is back and
\* the other three signals would run cleanup
C16_Witness ==
    /\ pc["p1"] = "loop_test" /\ tmp = {"p1"} /\ fd["p1"] # {}
    /\ hMask0["p1"] = {"SIGTERM"} /\ sigmask["p1"] = {"SIGTERM"}
    /\ hDisp0["p1"]["SIGINT"] = "ign" /\ HandlerInstalled("p1")

(***************************************************************************)
(* C17: when update_passwd_local returns to its caller (after the rename   *)
(* and after the early return of line 356) the signal mask and the         *)
(* dispositions of the four signals are what they were at entry.           *)
(***************************************************************************)
C17_SignalStateRestored ==
    \A p \in Procs :
        exit[p] = "exit0" =>
            (sigmask[p] = hMask0[p] /\ disp[p] = hDisp0[p])

(***************************************************************************)
(* C20: whatever the file-creation mask at entry, a created temporary file *)
(* has exactly the permission bits PLTMP_MODE, and outside the two calls   *)
(* of umask around open the file-creation mask is the one at entry, after  *)
(* a failed attempt as after a successful one.                             *)
(***************************************************************************)
C20_ModeAndUmask ==
    \A p \in Procs :
        /\ hCreated[p] => fmode[p] = PLTMP_MODE
        /\ pc[p] \notin {"open", "umask_restore"} => umask[p] = hUmask0[p]

\* a file created under a mask that would clear bits of PLTMP_MODE
C20_Witness ==
    /\ hCreated["p1"] /\ pc["p1"] = "loop_test"
    /\ hUmask0["p1"] = {"S_IRGRP", "S_IWGRP", "S_IROTH", "S_IWOTH"}
    /\ fmode["p1"] = PLTMP_MODE /\ umask["p1"] = hUmask0["p1"]

(***************************************************************************)
(* C18: record counts are preserved.  In every state of a run, failed      *)
(* calls and signals included, PATH_PASSWD_LOCAL holds as many lines of    *)
(* each user and as many lines in all as before the run; so a file with at *)
(* most one line of each user keeps that property.                         *)
(***************************************************************************)
C18_CountsPreserved ==
    mirror # {} =>
        LET now == files[The(mirror)]
        IN  /\ \A u \in Users : Count(now, u) = Count(Pre, u)
            /\ Len(SplitLines(now)) = Len(SplitLines(Pre))
            /\ (\A u \in Users : Count(Pre, u) <= 1) =>
                   (\A u \in Users : Count(now, u) <= 1)

(***************************************************************************)
(* C19: repeated calls of read_line on one stream with one buffer, no read *)
(* or allocation failing, return 0 once for each line of the stream, in    *)
(* order and with the line's newline removed (a last line without newline  *)
(* included, once), and 1 on every call after the last line.  The buffer   *)
(* capacity is 128 doubled some times, holds every line yielded with its   *)
(* terminator, and is still 128 while every line read so far, newline      *)
(* included, has fitted the 127 characters one fgets can store.            *)
(***************************************************************************)
C19_LineSequence ==
    LET want == SplitLines(files["local"])
        n    == Len(want)
        got  == IF Len(hRets) < n THEN Len(hRets) ELSE n
    IN  /\ \A i \in 1..Len(hRets) : hRets[i] = IF i <= n THEN 0 ELSE 1
        /\ hLines = SubSeq(want, 1, got)
        /\ hRets # <<>> =>
              /\ \E j \in 0..3 : linesize["p1"] = 128 * (2 ^ j)
              /\ \A i \in 1..got : Len(want[i]) + 1 <= linesize["p1"]
              /\ ( /\ \A i \in 1..got : Len(want[i]) + 1 <= 127
                    /\ fpPos["p1"] <= Len(files["local"]) )
                  => linesize["p1"] = 128

\* a line one longer than the first capacity holds, then an unterminated
\* line one longer than the doubled capacity holds, then two calls more
C19_Witness ==
    /\ files["local"] =
          Unterminated(<<Rep("q", BufInit - 1), Rep("s", 2 * BufInit - 1)>>)
    /\ hRets = <<0, 0, 1, 1>>
    /\ hLines = <<Rep("q", BufInit - 1), Rep("s", 2 * BufInit - 1)>>
    /\ linesize["p1"] = 512

====
